---- MODULE Spec2Model ----
(***************************************************************************)
(* Model of rdedup's repository configuration (lib/src/config.rs): the     *)
(* algorithm descriptors, the content-address path derivation, the         *)
(* passphrase rotation dispatch and the two-file commit protocol of        *)
(* Repo::write on top of the asynchronous I/O engine.                      *)
(***************************************************************************)
EXTENDS Integers, Sequences, FiniteSets, TLC

VARIABLES
    config,        \* the Repo value held in memory by the caller (Option)
    files,         \* on-disk content of config.yml and version
    aio,           \* per path: the state of the write submitted to AsyncIO
    pc,            \* position of the caller inside Repo::write
    acked,         \* completion observed by the wait() on the config.yml write
    wasFresh,      \* whether the version file was absent when write() started
    ret,           \* the value returned by the most recent finished call
    chunking_in,   \* input of Chunking::valid
    nesting_in,    \* input of Nesting::get_path (self)
    digest_in,     \* input of Nesting::get_path (digest)
    valid_out,     \* result of Chunking::valid
    path_out       \* result of Nesting::get_path

protoVars == <<config, files, aio, pc, acked, wasFresh, ret>>
pureVars == <<chunking_in, nesting_in, digest_in, valid_out, path_out>>
vars == <<config, files, aio, pc, acked, wasFresh, ret,
          chunking_in, nesting_in, digest_in, valid_out, path_out>>

----------------------------------------------------------------------------
(* Program constants *)

REPO_VERSION_LOWEST == 0
REPO_VERSION_CURRENT == 1
VERSION_FILE == "version"
CONFIG_YML_FILE == "config.yml"
DEFAULT_BUP_CHUNK_BITS == 17
DEFAULT_NESTING == 2

(* Bounds of the model *)

MaxChunkBits == 32      \* chunk_bits inputs of valid() range over 0..MaxChunkBits
MaxDigestLen == 2       \* digests have 1..MaxDigestLen bytes
MaxDepth == 4           \* nesting levels range over 0..MaxDepth
NumKeys == 2            \* key pairs Curve25519::new can generate

ByteSamples == {0, 10, 63, 171, 255}
Passphrases == {"p1", "p2"}
PassErr == "io_error"   \* a PassphraseFn whose call returns Err
Keys == 1..NumKeys

----------------------------------------------------------------------------
(* Text rendering *)

Digits == <<"0", "1", "2", "3", "4", "5", "6", "7", "8", "9">>
HexDigits == <<"0", "1", "2", "3", "4", "5", "6", "7",
               "8", "9", "a", "b", "c", "d", "e", "f">>

RECURSIVE Decimal(_)
\* write!(&mut v, "{}", n) for an unsigned integer
Decimal(n) ==
    IF n < 10 THEN <<Digits[n + 1]>>
    ELSE Append(Decimal(n \div 10), Digits[(n % 10) + 1])

DigitValue(c) == (CHOOSE i \in 1..10 : Digits[i] = c) - 1

RECURSIVE ParseDecimal(_)
ParseDecimal(s) ==
    IF Len(s) = 1 THEN DigitValue(s[1])
    ELSE 10 * ParseDecimal(SubSeq(s, 1, Len(s) - 1)) + DigitValue(s[Len(s)])

RECURSIVE to_hex(_)
\* hex::ToHex: two lowercase hex characters per byte
to_hex(bytes) ==
    IF bytes = <<>> THEN <<>>
    ELSE <<HexDigits[(Head(bytes) \div 16) + 1], HexDigits[(Head(bytes) % 16) + 1]>>
         \o to_hex(Tail(bytes))

----------------------------------------------------------------------------
(* Chunking *)

Bup(bits) == [variant |-> "Bup", chunk_bits |-> bits]
Gear(bits) == [variant |-> "Gear", chunk_bits |-> bits]

valid_upper_exclusive(self) ==
    CASE self.variant = "Bup" -> 30 > self.chunk_bits /\ self.chunk_bits >= 10
      [] self.variant = "Gear" -> 30 >= self.chunk_bits /\ self.chunk_bits >= 10

valid(self) ==
    CASE self.variant = "Bup" -> 30 >= self.chunk_bits /\ self.chunk_bits >= 10
      [] self.variant = "Gear" -> 30 >= self.chunk_bits /\ self.chunk_bits >= 10

----------------------------------------------------------------------------
(* Nesting *)

\* A path is a sequence of components, a component a sequence of characters.
join(dir, name) == Append(dir, name)

BaseDir == << <<"c", "h", "u", "n", "k">> >>

PathOk(p) == [kind |-> "path", path |-> p]
Panic == [kind |-> "panic"]

RECURSIVE get_path_levels(_, _, _, _)
\* the for loop of get_path; slicing past the end of the string panics
get_path_levels(dir, hex_digest, i, levels) ==
    IF i >= levels THEN PathOk(dir)
    ELSE LET start == i * 2
             end == start + 2
         IN IF end > Len(hex_digest) THEN Panic
            ELSE get_path_levels(join(dir, SubSeq(hex_digest, start + 1, end)),
                                 hex_digest, i + 1, levels)

RECURSIVE get_path_levels_shifted(_, _, _, _)
get_path_levels_shifted(dir, hex_digest, i, levels) ==
    IF i >= levels THEN PathOk(dir)
    ELSE LET start == i
             end == start + 2
         IN IF end > Len(hex_digest) THEN Panic
            ELSE get_path_levels_shifted(join(dir, SubSeq(hex_digest, start + 1, end)),
                                         hex_digest, i + 1, levels)

get_path_shifted(self, base, digest) ==
    LET hex_digest == to_hex(digest)
        dir == get_path_levels_shifted(base, hex_digest, 0, self)
    IN IF dir.kind = "panic" THEN Panic
       ELSE PathOk(join(dir.path, hex_digest))

get_path(self, base, digest) ==
    LET hex_digest == to_hex(digest)
        dir == IF self > 0 THEN get_path_levels(base, hex_digest, 0, self)
               ELSE PathOk(base)
    IN IF dir.kind = "panic" THEN Panic
       ELSE PathOk(join(dir.path, hex_digest))

----------------------------------------------------------------------------
(* Specification of the pure functions: inputs drawn in Init, then applied *)

RECURSIVE SeqsUpTo(_, _)
SeqsUpTo(S, n) ==
    IF n = 0 THEN {<<>>}
    ELSE LET shorter == SeqsUpTo(S, n - 1)
         IN shorter \cup {Append(s, x) : s \in shorter, x \in S}

Digests == SeqsUpTo(ByteSamples, MaxDigestLen) \ {<<>>}
ChunkingInputs == {Bup(b) : b \in 0..MaxChunkBits} \cup {Gear(b) : b \in 0..MaxChunkBits}

NotCalled == [kind |-> "none"]

ProtoIdle ==
    /\ config = [some |-> FALSE]
    /\ files = [p \in {CONFIG_YML_FILE, VERSION_FILE} |-> [state |-> "absent"]]
    /\ aio = [p \in {CONFIG_YML_FILE, VERSION_FILE} |-> [stage |-> "idle"]]
    /\ pc = "idle"
    /\ acked = "none"
    /\ wasFresh = FALSE
    /\ ret = [op |-> "none"]

InitPure ==
    /\ ProtoIdle
    /\ chunking_in \in ChunkingInputs
    /\ nesting_in \in 0..MaxDepth
    /\ digest_in \in Digests
    /\ valid_out = NotCalled
    /\ path_out = NotCalled

CallValid ==
    /\ valid_out = NotCalled
    /\ valid_out' = [kind |-> "bool", value |-> valid(chunking_in)]
    /\ UNCHANGED <<chunking_in, nesting_in, digest_in, path_out>>
    /\ UNCHANGED protoVars

CallGetPath ==
    /\ path_out = NotCalled
    /\ path_out' = get_path(nesting_in, BaseDir, digest_in)
    /\ UNCHANGED <<chunking_in, nesting_in, digest_in, valid_out>>
    /\ UNCHANGED protoVars

NextPure == CallValid \/ CallGetPath

SpecPure == InitPure /\ [][NextPure]_vars

----------------------------------------------------------------------------
\* C6: Chunking::valid returns true exactly when chunk_bits lies in the closed
\* range [10, 30], for the Bup and for the Gear variant alike.
C6_ValidIffInRange ==
    valid_out.kind = "bool" =>
        (valid_out.value <=> (chunking_in.chunk_bits \in 10..30))

C6_Witness ==
    /\ valid_out.kind = "bool"
    /\ chunking_in = Bup(30)
    /\ valid_out.value = TRUE

\* C7: when depth*2 <= hex length, get_path returns base, then depth directory
\* components of which the i-th is the two lowercase hex characters of byte i
\* of the digest, then a leaf that is the whole hex digest (two characters per
\* byte, in order); with depth 0 the leaf follows base directly.
NibblePair(b) == <<HexDigits[(b \div 16) + 1], HexDigits[(b % 16) + 1]>>

C7_PathShape ==
    (path_out # NotCalled /\ nesting_in * 2 <= 2 * Len(digest_in)) =>
        /\ path_out.kind = "path"
        /\ Len(path_out.path) = Len(BaseDir) + nesting_in + 1
        /\ SubSeq(path_out.path, 1, Len(BaseDir)) = BaseDir
        /\ \A i \in 0..(nesting_in - 1) :
              path_out.path[Len(BaseDir) + i + 1] = NibblePair(digest_in[i + 1])
        /\ LET leaf == path_out.path[Len(path_out.path)]
           IN /\ Len(leaf) = 2 * Len(digest_in)
              /\ \A k \in 1..Len(digest_in) :
                    <<leaf[2 * k - 1], leaf[2 * k]>> = NibblePair(digest_in[k])

C7_Witness ==
    /\ path_out # NotCalled
    /\ nesting_in = 2
    /\ digest_in = <<63, 171>>
    /\ path_out.kind = "path"
    /\ path_out.path[2] = <<"3", "f">>
    /\ path_out.path[3] = <<"a", "b">>

\* C8: when depth*2 exceeds the hex length, get_path reports a failure as a
\* value to its caller (it neither panics nor returns a path).
C8_FailsAsValue ==
    (path_out # NotCalled /\ nesting_in * 2 > 2 * Len(digest_in)) =>
        path_out.kind = "err"

----------------------------------------------------------------------------
(* Compression, Hashing: closed sets of variants *)

CompressionVariants == {"Deflate", "Xz2", "Bzip2", "Zstd", "None"}
HashingVariants == {"Sha256", "Blake2b"}

\* Hex length of the digests of a hashing algorithm (32-byte digests)
HexLength(hashing) == 64

----------------------------------------------------------------------------
(* Encryption *)

EncNone == [type |-> "None"]
\* encryption::Curve25519: the public key and the secret key sealed under a
\* passphrase; key pair k has public key k and secret key k.
Curve25519(k, p) == [type |-> "Curve25519", pub_key |-> k, sealed_sec_key |-> <<k, p>>]

Ok(v) == [res |-> "Ok", val |-> v]
Err(e) == [res |-> "Err", err |-> e]

\* Unsealing the secret key with a passphrase: authenticated decryption
unseal(c, p) ==
    IF c.sealed_sec_key[2] = p THEN Ok(c.sealed_sec_key[1])
    ELSE Err("AuthenticationFailure")

\* encryption::Curve25519::new(pass): a fresh key pair sealed under pass()
Curve25519_new(pass, fresh_key) ==
    IF pass = PassErr THEN Err("PassphraseFn")
    ELSE Ok(Curve25519(fresh_key, pass))

\* encryption::Curve25519::change_passphrase: unseal with old, then reseal the
\* same secret key under new, then replace the sealed bytes
Curve25519_change_passphrase(c, old_p, new_p) ==
    IF old_p = PassErr THEN [res |-> "Err", err |-> "PassphraseFn", self |-> c]
    ELSE LET sec == unseal(c, old_p)
         IN IF sec.res = "Err" THEN [res |-> "Err", err |-> sec.err, self |-> c]
            ELSE IF new_p = PassErr
                 THEN [res |-> "Err", err |-> "PassphraseFn", self |-> c]
                 ELSE [res |-> "Ok",
                       self |-> [c EXCEPT !.sealed_sec_key = <<sec.val, new_p>>]]

\* encryption::Curve25519::decrypter: a handle holding the unsealed secret key
Curve25519_decrypter(c, pass) ==
    IF pass = PassErr THEN Err("PassphraseFn")
    ELSE LET sec == unseal(c, pass)
         IN IF sec.res = "Err" THEN sec
            ELSE Ok([engine |-> "Curve25519", sec_key |-> sec.val])

change_passphrase_skip(self, old_p, new_p) ==
    [res |-> "Ok", self |-> self]

change_passphrase_none_unsupported(self, old_p, new_p) ==
    CASE self.type = "None" -> [res |-> "Err", err |-> "Unsupported", self |-> self]
      [] self.type = "Curve25519" -> Curve25519_change_passphrase(self, old_p, new_p)

\* impl EncryptionEngine for Encryption: the result and the value of *self after
change_passphrase(self, old_p, new_p) ==
    CASE self.type = "None" -> [res |-> "Ok", self |-> self]
      [] self.type = "Curve25519" -> Curve25519_change_passphrase(self, old_p, new_p)

decrypter(self, pass) ==
    CASE self.type = "None" -> Ok([engine |-> "Nop"])
      [] self.type = "Curve25519" -> Curve25519_decrypter(self, pass)

----------------------------------------------------------------------------
(* Repo *)

\* settings::Repo as handed to new_from_settings: the caller's choices
ChunkingChoices == {Bup(DEFAULT_BUP_CHUNK_BITS), Gear(31)}
NestingChoices == {DEFAULT_NESTING, 33}
HashingChoices == HashingVariants
CompressionChoices == {"Deflate"}
Settings ==
    [chunking : ChunkingChoices, encryption : {"Curve25519", "None"},
     compression : CompressionChoices, nesting : NestingChoices,
     hashing : HashingChoices]

new_from_settings(pass, settings, fresh_key) ==
    LET encryption ==
            CASE settings.encryption = "Curve25519" -> Curve25519_new(pass, fresh_key)
              [] settings.encryption = "None" -> Ok(EncNone)
    IN IF encryption.res = "Err" THEN encryption
       ELSE Ok([version |-> REPO_VERSION_CURRENT,
                chunking |-> settings.chunking,
                encryption |-> encryption.val,
                compression |-> settings.compression,
                nesting |-> settings.nesting,
                hashing |-> settings.hashing])

\* The descriptor invariants of the data model
ValidDescriptor(r) ==
    /\ r.version = REPO_VERSION_CURRENT
    /\ r.chunking.chunk_bits >= 10 /\ r.chunking.chunk_bits <= 30
    /\ r.nesting * 2 <= HexLength(r.hashing)

(* serde: the tagged textual form of the descriptor *)

ChunkingTag(v) == IF v = "Bup" THEN "bup" ELSE "gear"
ChunkingVariant(t) == IF t = "bup" THEN "Bup" ELSE "Gear"
CompressionTag(v) ==
    CASE v = "Deflate" -> "deflate" [] v = "Xz2" -> "xz2" [] v = "Bzip2" -> "bzip2"
      [] v = "Zstd" -> "zstd" [] v = "None" -> "none"
CompressionVariant(t) == CHOOSE v \in CompressionVariants : CompressionTag(v) = t
HashingTag(v) == IF v = "Sha256" THEN "sha256" ELSE "blake2b"
HashingVariant(t) == IF t = "sha256" THEN "Sha256" ELSE "Blake2b"

EncryptionToYaml(e) ==
    IF e.type = "None" THEN [type |-> "none"]
    ELSE [type |-> "curve25519_blake2b_salsa20_poly1305",
          pub_key |-> e.pub_key, sealed_sec_key |-> e.sealed_sec_key]
EncryptionFromYaml(y) ==
    IF y.type = "none" THEN EncNone
    ELSE [type |-> "Curve25519", pub_key |-> y.pub_key,
          sealed_sec_key |-> y.sealed_sec_key]

\* serde_yaml::to_string(self)
to_string(self) ==
    [version |-> Decimal(self.version),
     chunking |-> [type |-> ChunkingTag(self.chunking.variant),
                   chunk_bits |-> Decimal(self.chunking.chunk_bits)],
     encryption |-> EncryptionToYaml(self.encryption),
     compression |-> [type |-> CompressionTag(self.compression)],
     nesting |-> Decimal(self.nesting),
     hashing |-> [type |-> HashingTag(self.hashing)]]

\* Deserialize for Repo: fields marked #[serde(default)] may be absent
from_str(doc) ==
    [version |-> ParseDecimal(doc.version),
     chunking |-> IF "chunking" \in DOMAIN doc
                  THEN [variant |-> ChunkingVariant(doc.chunking.type),
                        chunk_bits |-> ParseDecimal(doc.chunking.chunk_bits)]
                  ELSE Bup(DEFAULT_BUP_CHUNK_BITS),
     encryption |-> EncryptionFromYaml(doc.encryption),
     compression |-> IF "compression" \in DOMAIN doc
                     THEN CompressionVariant(doc.compression.type)
                     ELSE "Deflate",
     nesting |-> IF "nesting" \in DOMAIN doc THEN ParseDecimal(doc.nesting)
                 ELSE DEFAULT_NESTING,
     hashing |-> IF "hashing" \in DOMAIN doc THEN HashingVariant(doc.hashing.type)
                 ELSE "Sha256"]

----------------------------------------------------------------------------
(* The asynchronous I/O engine and the files of the repository *)

Paths == {CONFIG_YML_FILE, VERSION_FILE}

Absent == [state |-> "absent"]
Partial == [state |-> "partial"]
Complete(d) == [state |-> "complete", data |-> d]

AioIdle == [stage |-> "idle"]
InFlight(a) == a.stage \in {"queued", "writing"}
Completed(a) == a.stage \in {"ok", "err"}

\* aio.write(path, data): the write is handed to the engine
aio_write(a, path, data) == [a EXCEPT ![path] = [stage |-> "queued", data |-> data]]

\* Reading a repository: the commit marker is looked at first
ReadRepo(f) ==
    IF f[VERSION_FILE].state = "absent" THEN [status |-> "Uninitialized"]
    ELSE IF f[CONFIG_YML_FILE].state # "complete" THEN [status |-> "MalformedConfig"]
    ELSE LET r == from_str(f[CONFIG_YML_FILE].data)
         IN IF r.version < REPO_VERSION_LOWEST \/ r.version > REPO_VERSION_CURRENT
            THEN [status |-> "UnsupportedVersion"]
            ELSE [status |-> "Ok", repo |-> r]

----------------------------------------------------------------------------
(* Repo::write *)

\* the `?` on the wait for the config.yml write: what write() does next
write_after_config_ignoring_error(completion) == "write_version_file"

write_after_config(completion) ==
    IF completion = "ok" THEN "write_version_file" ELSE "return_err"

\* the version handed to write_version_file
write_version_of_descriptor(self) == self.version

write_version_arg(self) == REPO_VERSION_CURRENT

\* write_version_file(aio, version): render the number, submit the write
write_version_file(a, version) == aio_write(a, VERSION_FILE, Decimal(version))

----------------------------------------------------------------------------
(* Actions *)

Some(v) == [some |-> TRUE, val |-> v]
NoRepo == [some |-> FALSE]
NoRet == [op |-> "none"]

\* A repository created by an earlier release: a version 0 descriptor whose
\* file carries only the fields without defaults, committed with its marker
LegacyFiles ==
    [p \in Paths |->
        IF p = CONFIG_YML_FILE
        THEN Complete([version |-> Decimal(REPO_VERSION_LOWEST),
                       encryption |-> EncryptionToYaml(Curve25519(1, "p1"))])
        ELSE Complete(Decimal(REPO_VERSION_LOWEST))]

PureIdle ==
    /\ chunking_in = Bup(DEFAULT_BUP_CHUNK_BITS)
    /\ nesting_in = DEFAULT_NESTING
    /\ digest_in = <<0>>
    /\ valid_out = NotCalled
    /\ path_out = NotCalled

Init ==
    /\ config = NoRepo
    /\ files \in {[p \in Paths |-> Absent], LegacyFiles}
    /\ aio = [p \in Paths |-> AioIdle]
    /\ pc = "idle"
    /\ acked = "none"
    /\ wasFresh = FALSE
    /\ ret = NoRet
    /\ PureIdle

\* Repo::new_from_settings, called to initialise a repository that a reader
\* reports as not existing
NewFromSettings(pass, settings, fresh_key) ==
    /\ pc = "idle"
    /\ ~config.some
    /\ ReadRepo(files).status = "Uninitialized"
    /\ LET r == new_from_settings(pass, settings, fresh_key)
       IN /\ config' = IF r.res = "Ok" THEN Some(r.val) ELSE config
          /\ ret' = [op |-> "new_from_settings", res |-> r.res, settings |-> settings]
    /\ UNCHANGED <<files, aio, pc, acked, wasFresh>>
    /\ UNCHANGED pureVars

\* Opening an existing repository: the descriptor is deserialized
Load ==
    /\ pc = "idle"
    /\ ~config.some
    /\ LET r == ReadRepo(files)
       IN /\ r.status = "Ok"
          /\ config' = Some(r.repo)
    /\ ret' = [op |-> "load"]
    /\ UNCHANGED <<files, aio, pc, acked, wasFresh>>
    /\ UNCHANGED pureVars

\* Encryption::change_passphrase on the descriptor held in memory
ChangePassphrase(old_p, new_p) ==
    /\ pc = "idle"
    /\ config.some
    /\ LET before == config.val.encryption
           r == change_passphrase(before, old_p, new_p)
       IN /\ config' = [config EXCEPT !.val.encryption = r.self]
          /\ ret' = [op |-> "change_passphrase", res |-> r.res,
                     old |-> old_p, new |-> new_p, before |-> before]
    /\ UNCHANGED <<files, aio, pc, acked, wasFresh>>
    /\ UNCHANGED pureVars

\* Repo::write up to its first suspension point: serialize, submit config.yml
WriteSubmitConfig ==
    /\ pc = "idle"
    /\ config.some
    /\ aio' = aio_write(aio, CONFIG_YML_FILE, to_string(config.val))
    /\ pc' = "wait_config"
    /\ acked' = "none"
    /\ wasFresh' = (files[VERSION_FILE].state = "absent")
    /\ ret' = NoRet
    /\ UNCHANGED <<config, files>>
    /\ UNCHANGED pureVars

\* wait() on the config.yml write returns; on Ok write_version_file submits
\* the marker, on Err write() returns the error
WriteConfigWaited ==
    /\ pc = "wait_config"
    /\ Completed(aio[CONFIG_YML_FILE])
    /\ LET completion == aio[CONFIG_YML_FILE].stage
           taken == [aio EXCEPT ![CONFIG_YML_FILE] = AioIdle]
       IN /\ acked' = completion
          /\ IF write_after_config(completion) = "write_version_file"
             THEN /\ aio' = write_version_file(taken, write_version_arg(config.val))
                  /\ pc' = "wait_version"
                  /\ ret' = ret
             ELSE /\ aio' = taken
                  /\ pc' = "idle"
                  /\ ret' = [op |-> "write", res |-> "Err"]
    /\ UNCHANGED <<config, files, wasFresh>>
    /\ UNCHANGED pureVars

\* wait() on the version write returns and write() returns with it
WriteVersionWaited ==
    /\ pc = "wait_version"
    /\ Completed(aio[VERSION_FILE])
    /\ ret' = [op |-> "write",
               res |-> IF aio[VERSION_FILE].stage = "ok" THEN "Ok" ELSE "Err"]
    /\ aio' = [aio EXCEPT ![VERSION_FILE] = AioIdle]
    /\ pc' = "idle"
    /\ UNCHANGED <<config, files, acked, wasFresh>>
    /\ UNCHANGED pureVars

\* The engine starts a submitted write: the target holds incomplete content
AioStart(path) ==
    /\ aio[path].stage = "queued"
    /\ aio' = [aio EXCEPT ![path].stage = "writing"]
    /\ files' = [files EXCEPT ![path] = Partial]
    /\ UNCHANGED <<config, pc, acked, wasFresh, ret>>
    /\ UNCHANGED pureVars

\* The engine finishes a write: the content is durable, the waiter gets Ok
AioFinish(path) ==
    /\ aio[path].stage = "writing"
    /\ aio' = [aio EXCEPT ![path] = [stage |-> "ok"]]
    /\ files' = [files EXCEPT ![path] = Complete(aio[path].data)]
    /\ UNCHANGED <<config, pc, acked, wasFresh, ret>>
    /\ UNCHANGED pureVars

\* The storage fails a write, before or while writing: the waiter gets Err
AioFail(path) ==
    /\ InFlight(aio[path])
    /\ aio' = [aio EXCEPT ![path] = [stage |-> "err"]]
    /\ UNCHANGED <<config, files, pc, acked, wasFresh, ret>>
    /\ UNCHANGED pureVars

\* The process crashes or the caller abandons the operation: memory and the
\* submitted writes are gone, the files stay as they are
Crash ==
    /\ config.some \/ pc # "idle"
    /\ config' = NoRepo
    /\ aio' = [p \in Paths |-> AioIdle]
    /\ pc' = "idle"
    /\ acked' = "none"
    /\ wasFresh' = FALSE
    /\ ret' = NoRet
    /\ UNCHANGED files
    /\ UNCHANGED pureVars

Next ==
    \/ \E pass \in Passphrases \cup {PassErr}, settings \in Settings, k \in Keys :
          NewFromSettings(pass, settings, k)
    \/ Load
    \/ \E old_p, new_p \in Passphrases \cup {PassErr} : ChangePassphrase(old_p, new_p)
    \/ WriteSubmitConfig
    \/ WriteConfigWaited
    \/ WriteVersionWaited
    \/ \E path \in Paths : AioStart(path)
    \/ \E path \in Paths : AioFinish(path)
    \/ \E path \in Paths : AioFail(path)
    \/ Crash

Spec == Init /\ [][Next]_vars

----------------------------------------------------------------------------
(* Properties of the commit protocol *)

\* C1: in every execution of Repo::write the write of the version file is
\* submitted only in the step in which the wait on the config.yml write
\* returned Ok, and the two writes are never in flight together.
C1_MarkerAfterConfigAck ==
    [][/\ (aio[VERSION_FILE].stage # "queued" /\ aio'[VERSION_FILE].stage = "queued")
            => (pc = "wait_config" /\ aio[CONFIG_YML_FILE].stage = "ok")
       /\ ~(InFlight(aio'[VERSION_FILE]) /\ InFlight(aio'[CONFIG_YML_FILE]))]_vars

C1_Witness ==
    /\ pc = "wait_version"
    /\ aio[VERSION_FILE].stage = "queued"
    /\ files[CONFIG_YML_FILE].state = "complete"

\* C2: when the config.yml write of a Repo::write on a fresh repository fails,
\* write returns an error, the version file is not written, and a reader that
\* checks the marker first sees the repository as not existing.
C2_ConfigFailureLeavesUninitialized ==
    (acked = "err" /\ wasFresh) =>
        /\ pc = "idle"
        /\ ret.op = "write" => ret.res = "Err"
        /\ ~InFlight(aio[VERSION_FILE])
        /\ files[VERSION_FILE] = Absent
        /\ ReadRepo(files).status = "Uninitialized"

C2_Witness ==
    /\ acked = "err"
    /\ wasFresh
    /\ ret.op = "write"
    /\ files[CONFIG_YML_FILE] = Partial

\* C3: in every reachable on-disk state in which the commit marker is present,
\* config.yml is present and completely written.
C3_MarkerImpliesDescriptor ==
    files[VERSION_FILE].state = "complete" =>
        /\ files[CONFIG_YML_FILE].state = "complete"
        /\ ReadRepo(files).status = "Ok"

\* C9 as stated: after a successful Repo::write the version file holds the
\* decimal rendering of the version stored in the descriptor just written.
C9_MarkerEqualsDescriptorVersion ==
    (ret.op = "write" /\ ret.res = "Ok") =>
        /\ files[VERSION_FILE].state = "complete"
        /\ files[CONFIG_YML_FILE].state = "complete"
        /\ files[VERSION_FILE].data =
              Decimal(from_str(files[CONFIG_YML_FILE].data).version)

\* C9 amended: after a successful Repo::write the version file holds the
\* decimal rendering of REPO_VERSION_CURRENT and config.yml holds the
\* descriptor; the marker equals the version stored in that descriptor exactly
\* when the descriptor's version is REPO_VERSION_CURRENT.
C9_MarkerIsCurrentVersion ==
    (ret.op = "write" /\ ret.res = "Ok") =>
        /\ files[VERSION_FILE] = Complete(Decimal(REPO_VERSION_CURRENT))
        /\ files[CONFIG_YML_FILE] = Complete(to_string(config.val))
        /\ (files[VERSION_FILE].data = files[CONFIG_YML_FILE].data.version)
              <=> (config.val.version = REPO_VERSION_CURRENT)

C9_Witness ==
    /\ ret.op = "write"
    /\ ret.res = "Ok"
    /\ config.val.version = REPO_VERSION_LOWEST
    /\ files[VERSION_FILE].state = "complete"

----------------------------------------------------------------------------
(* Properties of the descriptor and of the passphrase rotation *)

\* C5: every descriptor new_from_settings returns with Ok has the current
\* version, chunk_bits in [10, 30] and depth*2 <= the digest's hex length.
C5_OnlyValidDescriptors ==
    (ret.op = "new_from_settings" /\ ret.res = "Ok") => ValidDescriptor(config.val)

\* C4: after change_passphrase(old, new) returned Ok on a Curve25519 value with
\* old # new, decrypter(new) succeeds with the secret key of the key pair held
\* before the rotation and decrypter(old) fails with an authentication failure.
C4_RotationKeepsKeyPair ==
    (/\ ret.op = "change_passphrase"
     /\ ret.res = "Ok"
     /\ ret.before.type = "Curve25519"
     /\ ret.old # ret.new) =>
        LET enc == config.val.encryption
        IN /\ decrypter(enc, ret.new) =
                 Ok([engine |-> "Curve25519", sec_key |-> ret.before.pub_key])
           /\ enc.pub_key = ret.before.pub_key
           /\ decrypter(enc, ret.old) = Err("AuthenticationFailure")

C4_Witness ==
    /\ ret.op = "change_passphrase"
    /\ ret.res = "Ok"
    /\ ret.before.type = "Curve25519"
    /\ ret.old # ret.new
    /\ ret.before.pub_key = NumKeys

====
